---- MODULE Spec2Model ----
(***************************************************************************)
(* A model of the indi-3rdparty driver scripts: compare_debian_drivers.py, *)
(* indi_dependency_checker.py, merged_drivers.py and                       *)
(* indi-3rdparty-list-drivers.py.                                          *)
(*                                                                         *)
(* Python strings are modelled as sequences of one-character strings, so   *)
(* that rpartition, isdigit, int, startswith, slicing and concatenation    *)
(* are computed the way the code computes them.                            *)
(***************************************************************************)
EXTENDS Integers, Sequences, FiniteSets, TLC

VARIABLES
    \* handle_soname_versions(packages)
    packages,        \* the argument: a list of package names
    idx,             \* position of the for loop (1-based index of the next package)
    package_dict,    \* the dict, as a list of [key, value] in insertion order
    soPc,            \* "loop" | "returned" | "raised"
    soResult,        \* the returned list, once soPc = "returned"
    \* sort_packages_by_dependencies(packages)
    sortInput,        \* the argument `packages`
    pkgIdx,           \* position of the graph-building for loop
    dependency_graph, \* defaultdict(list): dependency -> dependents
    indegree,         \* defaultdict(int)
    reported,         \* history: package -> the names get_dependencies returned
    queue,            \* the deque
    sorted_packages,  \* the output list
    sortPc,           \* "build" | "kahn" | "returned"
    \* process_package(package_name) and the functions it calls
    ppScript,         \* the script whose process_package runs
    package_name,     \* the argument
    ppPc,             \* position in the call
    policy_out,       \* outcome of `apt-cache policy <package_name>`
    debian_version,   \* what get_debian_version returned
    clone_ok,         \* whether clone_or_update_repo of the mirror succeeds
    mirror,           \* the mirror repository at <home>/<package_name>-repo
    ppPrinted,        \* the lines process_package printed
    ppResult,         \* what the call returned
    \* the scripts' __main__ blocks
    script,               \* which script runs
    repo_entries,         \* the entries of the third-party repository's directory
    git_installed,        \* shutil.which("git") is not None
    apt_cache_installed,  \* shutil.which("apt-cache") is not None
    pc,                   \* position in __main__
    drivers_list,         \* list_drivers(...)
    debian_drivers,       \* after handle_soname_versions
    common_drivers,       \* the list the for loop runs over
    loopIdx,              \* position of the for loop
    driver_results,       \* the dict, as a list of [key, value]
    printed,              \* what was printed, in order
    invoked,              \* history: the external operations invoked, in order
    exit_status           \* "running", then 0, or 1 after an uncaught exception

sonameVars == <<packages, idx, package_dict, soPc, soResult>>

sortVars == <<sortInput, pkgIdx, dependency_graph, indegree, reported, queue,
              sorted_packages, sortPc>>

resolveVars == <<ppScript, package_name, ppPc, policy_out, debian_version,
                 clone_ok, mirror, ppPrinted, ppResult>>

mainVars == <<script, repo_entries, git_installed, apt_cache_installed, pc, drivers_list,
              debian_drivers, common_drivers, loopIdx, driver_results, printed,
              invoked, exit_status>>

vars == <<sonameVars, sortVars, resolveVars, mainVars>>

\* What each operation leaves alone: the variables of the other operations.
notSoname  == <<sortVars, resolveVars, mainVars>>
notSort    == <<sonameVars, resolveVars, mainVars>>
notResolve == <<sonameVars, sortVars, mainVars>>
notMain    == <<sonameVars, sortVars, resolveVars>>

----------------------------------------------------------------------------
(* Strings *)

Digits == {"0", "1", "2", "3", "4", "5", "6", "7", "8", "9"}

DigitValue(c) ==
    CASE c = "0" -> 0 [] c = "1" -> 1 [] c = "2" -> 2 [] c = "3" -> 3
      [] c = "4" -> 4 [] c = "5" -> 5 [] c = "6" -> 6 [] c = "7" -> 7
      [] c = "8" -> 8 [] c = "9" -> 9

\* str.isdigit(): true when the string is non-empty and every character is a
\* digit (the names of the model hold ASCII characters only).
isdigit(s) == Len(s) > 0 /\ \A i \in 1..Len(s) : s[i] \in Digits

\* Index of the last "-" of s, 0 when there is none.
LastHyphen(s) ==
    IF \E i \in 1..Len(s) : s[i] = "-"
    THEN CHOOSE i \in 1..Len(s) : s[i] = "-" /\ \A j \in (i+1)..Len(s) : s[j] # "-"
    ELSE 0

\* str.rpartition('-'): (head, sep, tail) around the last "-"; ('', '', s)
\* when s holds no "-".
rpartition(s) ==
    LET i == LastHyphen(s) IN
    IF i = 0 THEN << <<>>, <<>>, s >>
    ELSE << SubSeq(s, 1, i - 1), <<"-">>, SubSeq(s, i + 1, Len(s)) >>

\* The value of a string of decimal digits.
RECURSIVE DecimalValue(_)
DecimalValue(s) ==
    IF Len(s) = 0 THEN 0
    ELSE 10 * DecimalValue(SubSeq(s, 1, Len(s) - 1)) + DigitValue(s[Len(s)])

\* int(s) accepts an optional sign followed by decimal digits (package names
\* hold no whitespace and no underscore); anything else raises ValueError.
IntParses(s) ==
    \/ isdigit(s)
    \/ Len(s) > 1 /\ s[1] \in {"+", "-"} /\ isdigit(Tail(s))

int(s) ==
    IF isdigit(s) THEN DecimalValue(s)
    ELSE IF s[1] = "-" THEN 0 - DecimalValue(Tail(s))
    ELSE DecimalValue(Tail(s))

\* str.startswith(prefix)
startswith(s, prefix) ==
    Len(s) >= Len(prefix) /\ SubSeq(s, 1, Len(prefix)) = prefix

\* The set of elements of a list.
Range(s) == {s[i] : i \in 1..Len(s)}

\* Position of the first occurrence of sub in s at or after position from,
\* 0 when there is none.
FindFrom(s, sub, from) ==
    LET hits == {i \in from..(Len(s) - Len(sub) + 1) :
                    SubSeq(s, i, i + Len(sub) - 1) = sub} IN
    IF hits = {} THEN 0 ELSE CHOOSE i \in hits : \A j \in hits : i <= j

\* `sub in s`
Contains(s, sub) == FindFrom(s, sub, 1) # 0

\* str.strip(): leading and trailing blanks removed.
RECURSIVE lstrip(_)
lstrip(s) == IF Len(s) > 0 /\ s[1] = " " THEN lstrip(Tail(s)) ELSE s

RECURSIVE rstrip(_)
rstrip(s) ==
    IF Len(s) > 0 /\ s[Len(s)] = " " THEN rstrip(SubSeq(s, 1, Len(s) - 1)) ELSE s

strip(s) == rstrip(lstrip(s))

\* str.split(): the maximal runs of non-blank characters, in order.
RECURSIVE SplitFrom(_, _, _)
SplitFrom(s, i, word) ==
    IF i > Len(s) THEN (IF word = <<>> THEN <<>> ELSE <<word>>)
    ELSE IF s[i] = " "
         THEN (IF word = <<>> THEN <<>> ELSE <<word>>) \o SplitFrom(s, i + 1, <<>>)
         ELSE SplitFrom(s, i + 1, Append(word, s[i]))

split(s) == SplitFrom(s, 1, <<>>)

\* s.split(sep)[1]: the text between the first occurrence of sep and the
\* next one (or the end); used only where sep occurs in s.
SplitSecond(s, sep) ==
    LET first == FindFrom(s, sep, 1)
        start == first + Len(sep)
        next == FindFrom(s, sep, start) IN
    IF next = 0 THEN SubSeq(s, start, Len(s)) ELSE SubSeq(s, start, next - 1)

----------------------------------------------------------------------------
(* Package names used as inputs *)

libfoo    == <<"l", "i", "b", "f", "o", "o">>
libfoo3   == <<"l", "i", "b", "f", "o", "o", "3">>
libfoo_1  == <<"l", "i", "b", "f", "o", "o", "-", "1">>
libfoo_3  == <<"l", "i", "b", "f", "o", "o", "-", "3">>
libfoo_03 == <<"l", "i", "b", "f", "o", "o", "-", "0", "3">>
libbar    == <<"l", "i", "b", "b", "a", "r">>
libbar_2  == <<"l", "i", "b", "b", "a", "r", "-", "2">>
indi_gps  == <<"i", "n", "d", "i", "-", "g", "p", "s">>
indi_gps_1 == <<"i", "n", "d", "i", "-", "g", "p", "s", "-", "1">>
libx_p3   == <<"l", "i", "b", "x", "-", "+", "3">>
libx_p3_1 == <<"l", "i", "b", "x", "-", "+", "3", "-", "1">>

indi_a    == <<"i", "n", "d", "i", "-", "a">>
indi_b    == <<"i", "n", "d", "i", "-", "b">>
libapogee == <<"l", "i", "b", "a", "p", "o", "g", "e", "e">>
libc6     == <<"l", "i", "b", "c", "6">>

\* The drivers found both in the third-party repository and in the index.
Drivers == {indi_a, indi_b, libapogee}

\* The names `apt-cache depends` may report: the drivers and a package that
\* is no driver.
DepTokens == Drivers \cup {libc6}

\* The names apt-cache search may report to handle_soname_versions.
SonameNames ==
    {libfoo, libfoo3, libfoo_1, libfoo_3, libfoo_03, libbar, libbar_2,
     indi_gps, indi_gps_1, libx_p3, libx_p3_1}

\* Longest package list given to handle_soname_versions.
MaxLen == 3

\* All lists of at most n elements of S.
ListsUpTo(S, n) == UNION {[1..k -> S] : k \in 0..n}

----------------------------------------------------------------------------
(* handle_soname_versions *)

\* dict operations on a list of [key, value] records kept in insertion order
DictHas(d, k) == \E i \in 1..Len(d) : d[i].key = k

DictGet(d, k) == d[CHOOSE i \in 1..Len(d) : d[i].key = k].value

DictSet(d, k, v) ==
    IF DictHas(d, k)
    THEN [i \in 1..Len(d) |-> IF d[i].key = k THEN [key |-> k, value |-> v] ELSE d[i]]
    ELSE Append(d, [key |-> k, value |-> v])

DictValues(d) == [i \in 1..Len(d) |-> d[i].value]

\* base_name after lines 219-221: the part before the last "-" when the part
\* after it is all digits, the whole name otherwise.
BaseName(package) ==
    LET part == rpartition(package) IN
    IF ~isdigit(part[3]) THEN package ELSE part[1]

\* The operand int(current_version.rpartition('-')[-1]) of the comparison.
CurrentSuffix(current_version) == rpartition(current_version)[3]

\* The comparison of line 227, evaluated once version_suffix.isdigit() holds
\* and the int() of the stored name's last part did not raise.
NewerGE(version_suffix, current_version) ==
    int(version_suffix) >= int(CurrentSuffix(current_version))

Newer(version_suffix, current_version) ==
    int(version_suffix) > int(CurrentSuffix(current_version))

\* Whether the pass over `package` raises ValueError: the base is already in
\* the dict, the new suffix is all digits (so the `and` evaluates its right
\* operand) and int() of the stored name's last part does not parse.
BodyRaises(d, package) ==
    LET version_suffix == rpartition(package)[3]
        base_name == BaseName(package) IN
    /\ DictHas(d, base_name)
    /\ isdigit(version_suffix)
    /\ ~IntParses(CurrentSuffix(DictGet(d, base_name)))

\* One pass of the for loop body (lines 217-230) that does not raise: the dict
\* after it.
LoopBody(d, package) ==
    LET version_suffix == rpartition(package)[3]
        base_name == BaseName(package) IN
    IF DictHas(d, base_name)
    THEN IF isdigit(version_suffix) /\ Newer(version_suffix, DictGet(d, base_name))
         THEN DictSet(d, base_name, package)
         ELSE d
    ELSE DictSet(d, base_name, package)

\* The whole call as a function of its argument: [raised, value].
RECURSIVE SonameFrom(_, _, _)
SonameFrom(d, pkgs, i) ==
    IF i > Len(pkgs) THEN [raised |-> FALSE, value |-> DictValues(d)]
    ELSE IF BodyRaises(d, pkgs[i]) THEN [raised |-> TRUE, value |-> <<>>]
    ELSE SonameFrom(LoopBody(d, pkgs[i]), pkgs, i + 1)

handle_soname_versions(pkgs) == SonameFrom(<<>>, pkgs, 1)

SonameInit ==
    /\ packages \in ListsUpTo(SonameNames, MaxLen)
    /\ idx = 1
    /\ package_dict = <<>>
    /\ soPc = "loop"
    /\ soResult = <<>>
    \* no other operation runs
    /\ script = "none"
    /\ repo_entries = <<>>
    /\ git_installed = TRUE
    /\ apt_cache_installed = TRUE
    /\ pc = "idle"
    /\ drivers_list = <<>>
    /\ debian_drivers = <<>>
    /\ common_drivers = <<>>
    /\ loopIdx = 1
    /\ driver_results = <<>>
    /\ printed = <<>>
    /\ invoked = <<>>
    /\ exit_status = "running"
    /\ sortInput = <<>>
    /\ pkgIdx = 1
    /\ dependency_graph = [t \in DepTokens |-> <<>>]
    /\ indegree = [t \in DepTokens |-> 0]
    /\ reported = [t \in DepTokens |-> {}]
    /\ queue = <<>>
    /\ sorted_packages = <<>>
    /\ sortPc = "idle"
    /\ ppScript = "none"
    /\ package_name = <<>>
    /\ ppPc = "idle"
    /\ policy_out = [failed |-> FALSE, lines |-> <<>>]
    /\ debian_version = <<>>
    /\ clone_ok = TRUE
    /\ mirror = [git_error |-> FALSE, commits |-> <<>>,
                 changelog |-> [kind |-> "absent", lines |-> <<>>]]
    /\ ppPrinted = <<>>
    /\ ppResult = [kind |-> "none yet"]

\* One iteration of `for package in packages` that completes.
SonameIterate ==
    /\ soPc = "loop"
    /\ idx <= Len(packages)
    /\ ~BodyRaises(package_dict, packages[idx])
    /\ package_dict' = LoopBody(package_dict, packages[idx])
    /\ idx' = idx + 1
    /\ UNCHANGED <<packages, soPc, soResult>>
    /\ UNCHANGED notSoname

\* An iteration in which int() raises ValueError: the call ends there.
SonameRaise ==
    /\ soPc = "loop"
    /\ idx <= Len(packages)
    /\ BodyRaises(package_dict, packages[idx])
    /\ soPc' = "raised"
    /\ UNCHANGED <<packages, idx, package_dict, soResult>>
    /\ UNCHANGED notSoname

\* return list(package_dict.values())
SonameReturn ==
    /\ soPc = "loop"
    /\ idx > Len(packages)
    /\ soResult' = DictValues(package_dict)
    /\ soPc' = "returned"
    /\ UNCHANGED <<packages, idx, package_dict>>
    /\ UNCHANGED notSoname

SonameNext ==
    \/ SonameIterate
    \/ SonameRaise
    \/ SonameReturn

----------------------------------------------------------------------------
(* get_dependencies and sort_packages_by_dependencies *)

DependsPrefix == <<" ", " ", "D", "e", "p", "e", "n", "d", "s", ":">>
DependsWord   == <<"D", "e", "p", "e", "n", "d", "s", ":">>

\* Lines of the output of `apt-cache depends`
DependsLine(name)    == DependsPrefix \o <<" ">> \o name
AlternativeLine(name) == <<" ", "|">> \o DependsWord \o <<" ">> \o name
RecommendsLine(name) ==
    <<" ", " ", "R", "e", "c", "o", "m", "m", "e", "n", "d", "s", ":", " ">> \o name

DependsLines ==
    {DependsLine(t) : t \in DepTokens}
        \cup {AlternativeLine(indi_a), RecommendsLine(indi_b)}

\* Most lines of one `apt-cache depends` output after its header line.
MaxDeps == 2

\* What subprocess.run gives get_dependencies: the lines of stdout, or a
\* CalledProcessError.
DependsOutputs ==
    {[failed |-> TRUE, lines |-> <<>>]}
        \cup {[failed |-> FALSE, lines |-> <<name>> \o body] :
                name \in {indi_a}, body \in ListsUpTo(DependsLines, MaxDeps)}

\* get_dependencies (lines 173-185) on the outcome of the subprocess call.
RECURSIVE ParseDepends(_, _)
ParseDepends(lines, i) ==
    IF i > Len(lines) THEN <<>>
    ELSE IF startswith(lines[i], DependsPrefix)
         THEN <<strip(SplitSecond(lines[i], DependsWord))>> \o ParseDepends(lines, i + 1)
         ELSE ParseDepends(lines, i + 1)

get_dependencies(out) == IF out.failed THEN <<>> ELSE ParseDepends(out.lines, 1)

\* `dep in packages` (line 196)
DepCountedAlways(dep, pkgs) == TRUE

DepCounted(dep, pkgs) == dep \in Range(pkgs)

\* Lines 195-198 for one package: the graph and the in-degrees after its
\* dependencies are entered.
RECURSIVE AddDependencies(_, _, _, _, _)
AddDependencies(g, pkgs, package, dependencies, i) ==
    IF i > Len(dependencies) THEN g
    ELSE LET dep == dependencies[i] IN
         IF DepCounted(dep, pkgs)
         THEN AddDependencies(
                [graph |-> [g.graph EXCEPT ![dep] = Append(@, package)],
                 indegree |-> [g.indegree EXCEPT ![package] = @ + 1]],
                pkgs, package, dependencies, i + 1)
         ELSE AddDependencies(g, pkgs, package, dependencies, i + 1)

\* `indegree[neighbor] == 0` after the decrement (line 208)
ReadyAtOne(n) == n <= 1

Ready(n) == n = 0

\* A visit that puts a ready neighbour at the front of the queue.
RECURSIVE VisitNeighborsFront(_, _, _)
VisitNeighborsFront(k, neighbors, i) ==
    IF i > Len(neighbors) THEN k
    ELSE LET neighbor == neighbors[i]
             n == k.indegree[neighbor] - 1 IN
         VisitNeighborsFront(
            [indegree |-> [k.indegree EXCEPT ![neighbor] = n],
             queue |-> IF Ready(n) THEN <<neighbor>> \o k.queue ELSE k.queue],
            neighbors, i + 1)

\* Lines 206-209: the in-degrees and the queue after the neighbours of the
\* dequeued package are visited.
RECURSIVE VisitNeighbors(_, _, _)
VisitNeighbors(k, neighbors, i) ==
    IF i > Len(neighbors) THEN k
    ELSE LET neighbor == neighbors[i]
             n == k.indegree[neighbor] - 1 IN
         VisitNeighbors(
            [indegree |-> [k.indegree EXCEPT ![neighbor] = n],
             queue |-> IF Ready(n) THEN Append(k.queue, neighbor) ELSE k.queue],
            neighbors, i + 1)

\* queue = deque([pkg for pkg in packages if indegree[pkg] == 0]) (line 201)
SeedQueue(pkgs, deg) ==
    LET Zero(pkg) == deg[pkg] = 0 IN SelectSeq(pkgs, Zero)

\* Lists of distinct drivers: get_common_drivers returns list(set(...)).
DistinctLists(S) ==
    {l \in ListsUpTo(S, Cardinality(S)) :
        \A i \in 1..Len(l), j \in 1..Len(l) : l[i] = l[j] => i = j}

SortInit ==
    /\ sortInput \in DistinctLists(Drivers)
    /\ pkgIdx = 1
    /\ dependency_graph = [t \in DepTokens |-> <<>>]
    /\ indegree = [t \in DepTokens |-> 0]
    /\ reported = [t \in DepTokens |-> {}]
    /\ queue = <<>>
    /\ sorted_packages = <<>>
    /\ sortPc = "build"
    \* no other operation runs
    /\ script = "none"
    /\ repo_entries = <<>>
    /\ git_installed = TRUE
    /\ apt_cache_installed = TRUE
    /\ pc = "idle"
    /\ drivers_list = <<>>
    /\ debian_drivers = <<>>
    /\ common_drivers = <<>>
    /\ loopIdx = 1
    /\ driver_results = <<>>
    /\ printed = <<>>
    /\ invoked = <<>>
    /\ exit_status = "running"
    /\ packages = <<>>
    /\ idx = 1
    /\ package_dict = <<>>
    /\ soPc = "idle"
    /\ soResult = <<>>
    /\ ppScript = "none"
    /\ package_name = <<>>
    /\ ppPc = "idle"
    /\ policy_out = [failed |-> FALSE, lines |-> <<>>]
    /\ debian_version = <<>>
    /\ clone_ok = TRUE
    /\ mirror = [git_error |-> FALSE, commits |-> <<>>,
                 changelog |-> [kind |-> "absent", lines |-> <<>>]]
    /\ ppPrinted = <<>>
    /\ ppResult = [kind |-> "none yet"]

\* One pass of `for package in packages` (lines 193-198): the index is asked
\* for the package's dependencies and the in-set ones are entered.
SortAddPackage ==
    /\ sortPc = "build"
    /\ pkgIdx <= Len(sortInput)
    /\ \E out \in DependsOutputs :
        LET package == sortInput[pkgIdx]
            dependencies == get_dependencies(out)
            g == AddDependencies([graph |-> dependency_graph, indegree |-> indegree],
                                 sortInput, package, dependencies, 1) IN
        /\ dependency_graph' = g.graph
        /\ indegree' = g.indegree
        /\ reported' = [reported EXCEPT ![package] = Range(dependencies)]
    /\ pkgIdx' = pkgIdx + 1
    /\ UNCHANGED <<sortInput, queue, sorted_packages, sortPc>>
    /\ UNCHANGED notSort

\* Lines 200-201: the queue is seeded with the packages of in-degree 0.
SortSeed ==
    /\ sortPc = "build"
    /\ pkgIdx > Len(sortInput)
    /\ queue' = SeedQueue(sortInput, indegree)
    /\ sortPc' = "kahn"
    /\ UNCHANGED <<sortInput, pkgIdx, dependency_graph, indegree, reported,
                   sorted_packages>>
    /\ UNCHANGED notSort

\* One pass of `while queue` (lines 203-209).
SortDequeue ==
    /\ sortPc = "kahn"
    /\ queue # <<>>
    /\ LET pkg == Head(queue)
           k == VisitNeighbors([indegree |-> indegree, queue |-> Tail(queue)],
                               dependency_graph[pkg], 1) IN
        /\ sorted_packages' = Append(sorted_packages, pkg)
        /\ indegree' = k.indegree
        /\ queue' = k.queue
    /\ UNCHANGED <<sortInput, pkgIdx, dependency_graph, reported, sortPc>>
    /\ UNCHANGED notSort

\* return sorted_packages (line 211)
SortReturn ==
    /\ sortPc = "kahn"
    /\ queue = <<>>
    /\ sortPc' = "returned"
    /\ UNCHANGED <<sortInput, pkgIdx, dependency_graph, indegree, reported, queue,
                   sorted_packages>>
    /\ UNCHANGED notSort

SortNext ==
    \/ SortAddPackage
    \/ SortSeed
    \/ SortDequeue
    \/ SortReturn

----------------------------------------------------------------------------
(* The version resolver: get_debian_version, extract_version_from_changelog,
   get_latest_git_hash, calculate_version_from_git_hash *)

VersionNotFound ==
    <<"V", "e", "r", "s", "i", "o", "n", " ", "n", "o", "t", " ", "f", "o",
      "u", "n", "d">>
GitHashNotFound ==
    <<"G", "i", "t", " ", "h", "a", "s", "h", " ", "n", "o", "t", " ", "f",
      "o", "u", "n", "d">>
DefaultBase == <<"1", ".", "0">>
GitInfix == <<"+", "g", "i", "t">>
CandidateWord == <<"C", "a", "n", "d", "i", "d", "a", "t", "e", ":">>

\* Version tokens `apt-cache policy` prints after "Candidate:"
v_1_2_3_1build2 == <<"1", ".", "2", ".", "3", "-", "1", "b", "u", "i", "l", "d", "2">>
v_none  == <<"(", "n", "o", "n", "e", ")">>
v_epoch == <<"1", ":", "2", ".", "3", "-", "1">>
v_2_5   == <<"2", ".", "5">>

\* Lines of the output of `apt-cache policy`
CandidateLine(version) == <<" ", " ">> \o CandidateWord \o <<" ">> \o version
InstalledNone ==
    <<" ", " ", "I", "n", "s", "t", "a", "l", "l", "e", "d", ":", " ", "(",
      "n", "o", "n", "e", ")">>
VersionTableLine ==
    <<" ", " ", "V", "e", "r", "s", "i", "o", "n", " ", "t", "a", "b", "l",
      "e", ":">>

PolicyLines ==
    {InstalledNone, VersionTableLine, CandidateLine(v_1_2_3_1build2),
     CandidateLine(v_none), CandidateLine(v_epoch), CandidateLine(v_2_5)}

\* Most lines of one `apt-cache policy` output.
MaxPolicyLines == 3

\* What subprocess.run gives get_debian_version: the lines of stdout, or a
\* CalledProcessError. apt-cache always prints a value after "Candidate:".
PolicyOutputs ==
    {[failed |-> TRUE, lines |-> <<>>]}
        \cup {[failed |-> FALSE, lines |-> l] : l \in ListsUpTo(PolicyLines, MaxPolicyLines)}

\* re.match(r'[\d\.]+', version): the longest leading run of digits and dots,
\* empty when there is no match.
RECURSIVE LeadingDigits(_)
LeadingDigits(version) ==
    IF Len(version) > 0 /\ version[1] \in Digits
    THEN <<version[1]>> \o LeadingDigits(Tail(version))
    ELSE <<>>

RECURSIVE LeadingDigitsDots(_)
LeadingDigitsDots(version) ==
    IF Len(version) > 0 /\ version[1] \in Digits \cup {"."}
    THEN <<version[1]>> \o LeadingDigitsDots(Tail(version))
    ELSE <<>>

\* Lines 129-135: the first line holding "Candidate:" decides.
RECURSIVE ScanPolicy(_, _)
ScanPolicy(lines, i) ==
    IF i > Len(lines) THEN VersionNotFound
    ELSE IF Contains(lines[i], CandidateWord)
         THEN LET version == split(lines[i])[2]
                  cleaned_version == LeadingDigitsDots(version) IN
              IF cleaned_version # <<>> THEN cleaned_version ELSE VersionNotFound
         ELSE ScanPolicy(lines, i + 1)

\* get_debian_version (lines 117-138) on the outcome of the subprocess call.
get_debian_version(out) ==
    IF out.failed THEN VersionNotFound ELSE ScanPolicy(out.lines, 1)

\* Commit ids and commits of a mirror repository
hash_one ==
    <<"9", "f", "c", "e", "b", "0", "2", "d", "0", "a", "e", "5", "9", "8",
      "e", "9", "5", "d", "c", "9", "7", "0", "b", "7", "4", "7", "6", "7",
      "f", "1", "9", "3", "7", "2", "d", "6", "1", "a", "f", "8">>
hash_two ==
    <<"1", "a", "2", "b", "3", "c", "4", "d", "5", "e", "6", "f", "7", "0",
      "8", "1", "9", "2", "a", "3", "b", "4", "c", "5", "d", "6", "e", "7",
      "f", "8", "0", "9", "1", "a", "2", "b", "3", "c", "4", "d">>
hash_three ==
    <<"9", "f", "c", "e", "b", "0", "2", "e", "1", "1", "f", "2", "a", "3",
      "b", "4", "c", "5", "d", "6", "e", "7", "f", "8", "0", "9", "1", "a",
      "2", "b", "3", "c", "4", "d", "5", "e", "6", "f", "7", "0">>

Commits ==
    {[hexsha |-> hash_one,
      committed_datetime |-> [year |-> 2024, month |-> 1, day |-> 31]],
     [hexsha |-> hash_two,
      committed_datetime |-> [year |-> 1999, month |-> 12, day |-> 31]],
     [hexsha |-> hash_three,
      committed_datetime |-> [year |-> 2024, month |-> 3, day |-> 7]]}

\* First lines of debian/changelog
cl_full ==
    <<"f", "o", "o", " ", "(", "2", ".", "5", "-", "1", ")", " ", "u", "n",
      "s", "t", "a", "b", "l", "e", ";", " ", "u", "r", "g", "e", "n", "c",
      "y", "=", "m", "e", "d", "i", "u", "m">>
cl_other ==
    <<"f", "o", "o", " ", "(", "3", ".", "0", "-", "2", ")", " ", "s", "t",
      "a", "b", "l", "e", ";", " ", "u", "r", "g", "e", "n", "c", "y", "=",
      "l", "o", "w">>
cl_bare ==
    <<"f", "o", "o", " ", "2", ".", "5", "-", "1", " ", "u", "n", "s", "t",
      "a", "b", "l", "e", ";", " ", "u", "r", "g", "e", "n", "c", "y", "=",
      "m", "e", "d", "i", "u", "m">>
cl_tilde ==
    <<"i", "n", "d", "i", "-", "g", "p", "s", " ", "(", "1", ":", "0", ".",
      "9", "~", "r", "c", "1", "-", "2", ")", " ", "u", "n", "s", "t", "a",
      "b", "l", "e", ";", " ", "u", "r", "g", "e", "n", "c", "y", "=", "l",
      "o", "w">>
cl_single == <<"f", "o", "o">>
cl_blank == <<" ", " ">>

ChangelogLines == {cl_full, cl_other, cl_tilde, cl_bare, cl_single, cl_blank, <<>>}

\* Most lines of a changelog file, and most commits of a mirror repository.
MaxChangelogLines == 2
MaxCommits == 2

\* debian/changelog of the mirror: absent, unreadable (open or read raises)
\* or a file with its lines.
Changelogs ==
    {[kind |-> "absent", lines |-> <<>>], [kind |-> "unreadable", lines |-> <<>>]}
        \cup {[kind |-> "file", lines |-> l] :
                l \in ListsUpTo(ChangelogLines, MaxChangelogLines)}

\* Lists of at most n distinct elements of S.
DistinctListsUpTo(S, n) ==
    {l \in ListsUpTo(S, n) :
        \A i \in 1..Len(l), j \in 1..Len(l) : l[i] = l[j] => i = j}

\* The mirror repository after clone_or_update_repo: whether GitPython fails
\* on it (git.Repo or a lookup raises), its commits from HEAD backwards, and
\* its changelog.
Mirrors ==
    [git_error : BOOLEAN,
     commits : DistinctListsUpTo(Commits, MaxCommits),
     changelog : Changelogs]

\* str.strip("()"): leading and trailing parentheses removed.
RECURSIVE lstripParens(_)
lstripParens(s) ==
    IF Len(s) > 0 /\ s[1] \in {"(", ")"} THEN lstripParens(Tail(s)) ELSE s

RECURSIVE rstripParens(_)
rstripParens(s) ==
    IF Len(s) > 0 /\ s[Len(s)] \in {"(", ")"}
    THEN rstripParens(SubSeq(s, 1, Len(s) - 1)) ELSE s

stripParens(s) == rstripParens(lstripParens(s))

\* A reader that takes the file's last line instead of its first.
extract_version_from_last_line(changelog) ==
    IF changelog.kind = "file"
    THEN LET first_line ==
                strip(IF Len(changelog.lines) = 0 THEN <<>>
                      ELSE changelog.lines[Len(changelog.lines)]) IN
         IF first_line # <<>> /\ Len(split(first_line)) >= 2
         THEN stripParens(split(first_line)[2])
         ELSE VersionNotFound
    ELSE VersionNotFound

\* extract_version_from_changelog (lines 140-158). readline() gives the first
\* line ('' for an empty file); an IndexError of split()[1] or an error of
\* open/read is caught and the function falls through to the sentinel.
extract_version_from_changelog(changelog) ==
    IF changelog.kind = "file"
    THEN LET first_line ==
                strip(IF Len(changelog.lines) = 0 THEN <<>> ELSE changelog.lines[1]) IN
         IF first_line # <<>> /\ Len(split(first_line)) >= 2
         THEN stripParens(split(first_line)[2])
         ELSE VersionNotFound
    ELSE VersionNotFound

\* n in decimal, zero-padded to `width` digits (strftime's %Y, %m, %d for
\* years from 1000 on).
DigitChar(d) ==
    CASE d = 0 -> "0" [] d = 1 -> "1" [] d = 2 -> "2" [] d = 3 -> "3"
      [] d = 4 -> "4" [] d = 5 -> "5" [] d = 6 -> "6" [] d = 7 -> "7"
      [] d = 8 -> "8" [] d = 9 -> "9"

RECURSIVE Padded(_, _)
Padded(n, width) ==
    IF width = 0 THEN <<>>
    ELSE Padded(n \div 10, width - 1) \o <<DigitChar(n % 10)>>

\* commit.committed_datetime.strftime('%Y%m%d')
strftime_Ymd(dt) == Padded(dt.year, 4) \o Padded(dt.month, 2) \o Padded(dt.day, 2)

\* git_hash[:7]
ShortHashLen == 7

ShortHash(git_hash) ==
    SubSeq(git_hash, 1, IF Len(git_hash) < ShortHashLen THEN Len(git_hash) ELSE ShortHashLen)

\* next(repo.iter_commits(max_count=1)) and repo.head.commit: the commit HEAD
\* points at, the most recent one.
OldestCommit(repo) == repo.commits[Len(repo.commits)]

LatestCommit(repo) == repo.commits[1]

\* Whether a commit lookup on the repository raises: GitPython fails, or
\* there is no commit.
LookupRaises(repo) == repo.git_error \/ Len(repo.commits) = 0

\* A lookup that answers a failure with the version sentinel.
get_latest_git_hash_version_sentinel(repo) ==
    IF LookupRaises(repo) THEN VersionNotFound ELSE LatestCommit(repo).hexsha

\* get_latest_git_hash (lines 171-186)
get_latest_git_hash(repo) ==
    IF LookupRaises(repo) THEN GitHashNotFound ELSE LatestCommit(repo).hexsha

\* calculate_version_from_git_hash (lines 235-265): <<version, git_hash>>
calculate_version_from_git_hash(repo) ==
    IF LookupRaises(repo) THEN <<VersionNotFound, GitHashNotFound>>
    ELSE LET commit == LatestCommit(repo)
             commit_date == strftime_Ymd(commit.committed_datetime)
             git_hash == commit.hexsha
             from_changelog == extract_version_from_changelog(repo.changelog)
             base_version ==
                IF from_changelog = VersionNotFound THEN DefaultBase ELSE from_changelog
             version == base_version \o GitInfix \o commit_date \o <<".">> \o ShortHash(git_hash) IN
         <<version, git_hash>>

NoPolicy == [failed |-> FALSE, lines |-> <<>>]
NoMirror == [git_error |-> FALSE, commits |-> <<>>,
             changelog |-> [kind |-> "absent", lines |-> <<>>]]
NoResult == [kind |-> "none yet"]

\* get_debian_version on every policy output of at most MaxPolicyLines lines
PolicyInit ==
    /\ ppScript = "compare_debian_drivers"
    /\ package_name = indi_a
    /\ ppPc = "policy"
    /\ policy_out \in PolicyOutputs
    /\ debian_version = <<>>
    /\ clone_ok = TRUE
    /\ mirror = NoMirror
    /\ ppPrinted = <<>>
    /\ ppResult = NoResult
    \* no other operation runs
    /\ script = "none"
    /\ repo_entries = <<>>
    /\ git_installed = TRUE
    /\ apt_cache_installed = TRUE
    /\ pc = "idle"
    /\ drivers_list = <<>>
    /\ debian_drivers = <<>>
    /\ common_drivers = <<>>
    /\ loopIdx = 1
    /\ driver_results = <<>>
    /\ printed = <<>>
    /\ invoked = <<>>
    /\ exit_status = "running"
    /\ packages = <<>>
    /\ idx = 1
    /\ package_dict = <<>>
    /\ soPc = "idle"
    /\ soResult = <<>>
    /\ sortInput = <<>>
    /\ pkgIdx = 1
    /\ dependency_graph = [t \in DepTokens |-> <<>>]
    /\ indegree = [t \in DepTokens |-> 0]
    /\ reported = [t \in DepTokens |-> {}]
    /\ queue = <<>>
    /\ sorted_packages = <<>>
    /\ sortPc = "idle"

\* debian_version = get_debian_version(package_name)
QueryPolicy ==
    /\ ppPc = "policy"
    /\ debian_version' = get_debian_version(policy_out)
    /\ ppPc' = "policy done"
    /\ UNCHANGED <<ppScript, package_name, policy_out, clone_ok, mirror, ppPrinted,
                   ppResult>>
    /\ UNCHANGED notResolve

\* calculate_version_from_git_hash on every mirror repository
CalculateInit ==
    /\ ppScript = "compare_debian_drivers"
    /\ package_name = indi_a
    /\ ppPc = "calculate"
    /\ policy_out = NoPolicy
    /\ debian_version = VersionNotFound
    /\ clone_ok = TRUE
    /\ mirror \in Mirrors
    /\ ppPrinted = <<>>
    /\ ppResult = NoResult
    \* no other operation runs
    /\ script = "none"
    /\ repo_entries = <<>>
    /\ git_installed = TRUE
    /\ apt_cache_installed = TRUE
    /\ pc = "idle"
    /\ drivers_list = <<>>
    /\ debian_drivers = <<>>
    /\ common_drivers = <<>>
    /\ loopIdx = 1
    /\ driver_results = <<>>
    /\ printed = <<>>
    /\ invoked = <<>>
    /\ exit_status = "running"
    /\ packages = <<>>
    /\ idx = 1
    /\ package_dict = <<>>
    /\ soPc = "idle"
    /\ soResult = <<>>
    /\ sortInput = <<>>
    /\ pkgIdx = 1
    /\ dependency_graph = [t \in DepTokens |-> <<>>]
    /\ indegree = [t \in DepTokens |-> 0]
    /\ reported = [t \in DepTokens |-> {}]
    /\ queue = <<>>
    /\ sorted_packages = <<>>
    /\ sortPc = "idle"

\* version, git_hash = calculate_version_from_git_hash(repo_path)
Calculate ==
    /\ ppPc = "calculate"
    /\ LET pair == calculate_version_from_git_hash(mirror) IN
        ppResult' = [kind |-> "pair", version |-> pair[1], git_hash |-> pair[2]]
    /\ ppPc' = "calculated"
    /\ UNCHANGED <<ppScript, package_name, policy_out, debian_version, clone_ok,
                   mirror, ppPrinted>>
    /\ UNCHANGED notResolve

\* extract_version_from_changelog on every changelog of at most
\* MaxChangelogLines lines
ChangelogInit ==
    /\ ppScript = "compare_debian_drivers"
    /\ package_name = indi_a
    /\ ppPc = "changelog"
    /\ policy_out = NoPolicy
    /\ debian_version = VersionNotFound
    /\ clone_ok = TRUE
    /\ mirror \in {m \in Mirrors : ~m.git_error /\ m.commits = <<>>}
    /\ ppPrinted = <<>>
    /\ ppResult = NoResult
    \* no other operation runs
    /\ script = "none"
    /\ repo_entries = <<>>
    /\ git_installed = TRUE
    /\ apt_cache_installed = TRUE
    /\ pc = "idle"
    /\ drivers_list = <<>>
    /\ debian_drivers = <<>>
    /\ common_drivers = <<>>
    /\ loopIdx = 1
    /\ driver_results = <<>>
    /\ printed = <<>>
    /\ invoked = <<>>
    /\ exit_status = "running"
    /\ packages = <<>>
    /\ idx = 1
    /\ package_dict = <<>>
    /\ soPc = "idle"
    /\ soResult = <<>>
    /\ sortInput = <<>>
    /\ pkgIdx = 1
    /\ dependency_graph = [t \in DepTokens |-> <<>>]
    /\ indegree = [t \in DepTokens |-> 0]
    /\ reported = [t \in DepTokens |-> {}]
    /\ queue = <<>>
    /\ sorted_packages = <<>>
    /\ sortPc = "idle"

\* base_version = extract_version_from_changelog(repo_path / 'debian' / 'changelog')
ExtractVersion ==
    /\ ppPc = "changelog"
    /\ ppResult' = [kind |-> "version",
                    version |-> extract_version_from_changelog(mirror.changelog)]
    /\ ppPc' = "extracted"
    /\ UNCHANGED <<ppScript, package_name, policy_out, debian_version, clone_ok,
                   mirror, ppPrinted>>
    /\ UNCHANGED notResolve

----------------------------------------------------------------------------
(* process_package *)

\* The scripts that define process_package
ProcessScripts == {"compare_debian_drivers", "indi_dependency_checker", "merged_drivers"}

\* merged_drivers.process_package (lines 122-131) never asks the index;
\* the other two call get_debian_version first (line 191, line 215).
QueriesIndex(scr) == scr # "merged_drivers"

\* The branch of lines 204-209: the index version is returned with the HEAD
\* hash unless get_debian_version gave the sentinel.
NeverUsesIndexVersion(scr, version) == FALSE

UsesIndexVersion(scr, version) == QueriesIndex(scr) /\ version # VersionNotFound

None == [kind |-> "None"]

Pair(version, git_hash) == [kind |-> "pair", version |-> version, git_hash |-> git_hash]

\* process_package of script scr for package `name`, given what the index
\* answers (out), whether the clone/update of the mirror succeeds (ok) and the
\* mirror it leaves (m): the lines it prints itself and what it returns.
process_package(scr, name, out, ok, m) ==
    LET version == IF QueriesIndex(scr) THEN get_debian_version(out) ELSE VersionNotFound
        calls == (IF QueriesIndex(scr)
                  THEN <<[op |-> "apt-cache policy", arg |-> name]>> ELSE <<>>)
                 \o <<[op |-> "clone_or_update_repo", arg |-> name]>> IN
    IF ok
    THEN IF UsesIndexVersion(scr, version)
         THEN [printed |-> <<>>, invoked |-> calls,
               result |-> Pair(version, get_latest_git_hash(m))]
         ELSE LET pair == calculate_version_from_git_hash(m) IN
              [printed |-> <<>>, invoked |-> calls, result |-> Pair(pair[1], pair[2])]
    ELSE [printed |-> <<[msg |-> "Failed to process", arg |-> name]>>,
          invoked |-> calls, result |-> None]

\* What the index and the mirror may hold when a driver is resolved
ResolvePolicyOutputs ==
    {[failed |-> TRUE, lines |-> <<>>],
     [failed |-> FALSE, lines |-> <<>>],
     [failed |-> FALSE, lines |-> <<InstalledNone, CandidateLine(v_none)>>],
     [failed |-> FALSE, lines |-> <<InstalledNone, CandidateLine(v_1_2_3_1build2)>>]}

ResolveMirrors ==
    [git_error : BOOLEAN,
     commits : {l \in DistinctListsUpTo(Commits, 2) : Len(l) = 0 \/ l[1].hexsha = hash_three},
     changelog : {[kind |-> "absent", lines |-> <<>>],
                  [kind |-> "file", lines |-> <<cl_full>>]}]

\* process_package for every script, index answer, clone outcome and mirror
ResolveInit ==
    /\ ppScript \in ProcessScripts
    /\ package_name \in {indi_a, libapogee}
    /\ ppPc = "start"
    /\ policy_out \in ResolvePolicyOutputs
    /\ debian_version = <<>>
    /\ clone_ok \in BOOLEAN
    /\ mirror \in ResolveMirrors
    /\ ppPrinted = <<>>
    /\ ppResult = NoResult
    \* no other operation runs
    /\ script = "none"
    /\ repo_entries = <<>>
    /\ git_installed = TRUE
    /\ apt_cache_installed = TRUE
    /\ pc = "idle"
    /\ drivers_list = <<>>
    /\ debian_drivers = <<>>
    /\ common_drivers = <<>>
    /\ loopIdx = 1
    /\ driver_results = <<>>
    /\ printed = <<>>
    /\ invoked = <<>>
    /\ exit_status = "running"
    /\ packages = <<>>
    /\ idx = 1
    /\ package_dict = <<>>
    /\ soPc = "idle"
    /\ soResult = <<>>
    /\ sortInput = <<>>
    /\ pkgIdx = 1
    /\ dependency_graph = [t \in DepTokens |-> <<>>]
    /\ indegree = [t \in DepTokens |-> 0]
    /\ reported = [t \in DepTokens |-> {}]
    /\ queue = <<>>
    /\ sorted_packages = <<>>
    /\ sortPc = "idle"

\* One call of process_package(package_name)
ProcessPackage ==
    /\ ppPc = "start"
    /\ LET r == process_package(ppScript, package_name, policy_out, clone_ok, mirror) IN
        /\ ppPrinted' = r.printed
        /\ ppResult' = r.result
    /\ debian_version' =
        IF QueriesIndex(ppScript) THEN get_debian_version(policy_out) ELSE debian_version
    /\ ppPc' = "returned"
    /\ UNCHANGED <<ppScript, package_name, policy_out, clone_ok, mirror>>
    /\ UNCHANGED notResolve

----------------------------------------------------------------------------
(* sort_packages_by_dependencies as a function, for the callers *)

\* Lines 193-198 over the whole list; depsOf[p] is what get_dependencies(p)
\* returns.
RECURSIVE BuildGraph(_, _, _, _)
BuildGraph(g, pkgs, depsOf, i) ==
    IF i > Len(pkgs) THEN g
    ELSE BuildGraph(AddDependencies(g, pkgs, pkgs[i], depsOf[pkgs[i]], 1),
                    pkgs, depsOf, i + 1)

\* A loop that puts each dequeued package in front of the result.
RECURSIVE KahnLoopPrepend(_, _, _)
KahnLoopPrepend(k, graph, sorted) ==
    IF k.queue = <<>> THEN sorted
    ELSE LET pkg == Head(k.queue) IN
         KahnLoopPrepend(VisitNeighbors([indegree |-> k.indegree, queue |-> Tail(k.queue)],
                                        graph[pkg], 1),
                         graph, <<pkg>> \o sorted)

\* Lines 203-209 until the queue is empty.
RECURSIVE KahnLoop(_, _, _)
KahnLoop(k, graph, sorted) ==
    IF k.queue = <<>> THEN sorted
    ELSE LET pkg == Head(k.queue) IN
         KahnLoop(VisitNeighbors([indegree |-> k.indegree, queue |-> Tail(k.queue)],
                                 graph[pkg], 1),
                  graph, Append(sorted, pkg))

sort_packages_by_dependencies(pkgs, depsOf) ==
    LET g == BuildGraph([graph |-> [t \in DepTokens |-> <<>>],
                         indegree |-> [t \in DepTokens |-> 0]], pkgs, depsOf, 1) IN
    KahnLoop([indegree |-> g.indegree, queue |-> SeedQueue(pkgs, g.indegree)],
             g.graph, <<>>)

----------------------------------------------------------------------------
(* The scripts' __main__ blocks *)

libindi_dev == <<"l", "i", "b", "i", "n", "d", "i", "-", "d", "e", "v">>
some_other_package ==
    <<"s", "o", "m", "e", "_", "o", "t", "h", "e", "r", "_", "p", "a", "c",
      "k", "a", "g", "e">>
indi_3rdparty ==
    <<"i", "n", "d", "i", "-", "3", "r", "d", "p", "a", "r", "t", "y">>
indi_notes ==
    <<"i", "n", "d", "i", "-", "n", "o", "t", "e", "s", ".", "t", "x", "t">>
libtool_file == <<"l", "i", "b", "t", "o", "o", "l", ".", "m", "4">>
debian_dir == <<"d", "e", "b", "i", "a", "n">>
libapogee_3 == <<"l", "i", "b", "a", "p", "o", "g", "e", "e", "-", "3">>
kstars == <<"k", "s", "t", "a", "r", "s">>
IndiPrefix == <<"i", "n", "d", "i", "-">>
LibPrefix == <<"l", "i", "b">>

\* ignored_packages (indi_dependency_checker line 19, merged_drivers line 14)
ignored_packages == <<libapogee, libindi_dev, some_other_package>>

MainScripts == {"compare_debian_drivers", "indi_dependency_checker", "merged_drivers"}

\* Entries of the third-party repository's directory
Dir(name) == [name |-> name, is_dir |-> TRUE]
File(name) == [name |-> name, is_dir |-> FALSE]

Listings ==
    {<<Dir(indi_a), File(indi_notes), Dir(libapogee), Dir(debian_dir),
       File(libtool_file), Dir(indi_b)>>,
     <<Dir(indi_b), Dir(indi_a)>>,
     <<>>}

\* The filter of list_drivers: compare_debian_drivers line 70,
\* indi_dependency_checker line 58, merged_drivers line 64 and
\* indi-3rdparty-list-drivers line 63 (where `and` binds tighter than `or`).
IsListed(scr, item) ==
    CASE scr = "compare_debian_drivers" ->
            item.is_dir /\ startswith(item.name, IndiPrefix)
      [] scr = "indi-3rdparty-list-drivers" ->
            (item.is_dir /\ startswith(item.name, IndiPrefix))
                \/ startswith(item.name, LibPrefix)
      [] OTHER ->
            item.is_dir /\ (startswith(item.name, IndiPrefix)
                                \/ startswith(item.name, LibPrefix))

list_drivers(scr, entries) ==
    LET Keep(item) == IsListed(scr, item)
        kept == SelectSeq(entries, Keep) IN
    [i \in 1..Len(kept) |-> kept[i].name]

\* Lines of the output of `apt-cache search indi-`
SearchLine(name) ==
    name \o <<" ", "-", " ", "I", "N", "D", "I", " ", "d", "r", "i", "v", "e", "r">>

SearchOutputs ==
    {[failed |-> TRUE, lines |-> <<>>],
     [failed |-> FALSE,
      lines |-> <<SearchLine(indi_a), SearchLine(kstars), SearchLine(indi_b),
                  SearchLine(libapogee)>>],
     [failed |-> FALSE, lines |-> <<SearchLine(indi_b), SearchLine(indi_a)>>],
     [failed |-> FALSE,
      lines |-> <<SearchLine(libapogee_3), SearchLine(libapogee), SearchLine(indi_a)>>],
     [failed |-> FALSE,
      lines |-> <<SearchLine(libapogee), SearchLine(libapogee_3), SearchLine(indi_a)>>]}

\* get_debian_drivers (compare_debian_drivers lines 76-91): the first word of
\* every line that starts with "indi-" or "lib"; [] when the search fails.
get_debian_drivers(out) ==
    IF out.failed THEN <<>>
    ELSE LET Keep(line) == startswith(line, IndiPrefix) \/ startswith(line, LibPrefix)
             kept == SelectSeq(out.lines, Keep) IN
         [i \in 1..Len(kept) |-> split(kept[i])[1]]

\* Matching by prefix instead of equality.
CommonByPrefix(third_party, debian) ==
    {t \in Range(third_party) : \E d \in Range(debian) : startswith(d, t)}

\* get_common_drivers (lines 104-115): the set both lists share; list(set)
\* gives it in an order of the interpreter's choosing.
CommonSet(third_party, debian) == Range(third_party) \cap Range(debian)

Orderings(S) == {l \in DistinctLists(S) : Len(l) = Cardinality(S)}

\* merged_drivers line 159
NotIgnored(l) ==
    LET Keep(driver) == driver \notin Range(ignored_packages) IN SelectSeq(l, Keep)

\* What the index and the mirrors hold while the drivers are processed
MainPolicyOutputs ==
    {[failed |-> FALSE, lines |-> <<InstalledNone, CandidateLine(v_none)>>],
     [failed |-> FALSE, lines |-> <<InstalledNone, CandidateLine(v_1_2_3_1build2)>>]}

MainMirrors ==
    {[git_error |-> FALSE, commits |-> <<>>,
      changelog |-> [kind |-> "absent", lines |-> <<>>]],
     [git_error |-> FALSE,
      commits |-> <<CHOOSE c \in Commits : c.hexsha = hash_one>>,
      changelog |-> [kind |-> "absent", lines |-> <<>>]]}

MainDependsOutputs ==
    {[failed |-> FALSE, lines |-> <<indi_a>>],
     [failed |-> FALSE, lines |-> <<indi_a, DependsLine(libc6), DependsLine(indi_a)>>],
     [failed |-> FALSE, lines |-> <<indi_a, DependsLine(indi_b)>>],
     [failed |-> FALSE, lines |-> <<indi_a, DependsLine(libapogee)>>]}

Msg(text) == [msg |-> text, arg |-> <<>>]

Call(op, arg) == [op |-> op, arg |-> arg]

MainInit ==
    /\ script \in MainScripts
    /\ repo_entries = <<>>
    /\ git_installed \in BOOLEAN
    /\ apt_cache_installed \in BOOLEAN
    /\ pc = "start"
    /\ drivers_list = <<>>
    /\ debian_drivers = <<>>
    /\ common_drivers = <<>>
    /\ loopIdx = 1
    /\ driver_results = <<>>
    /\ printed = <<>>
    /\ invoked = <<>>
    /\ exit_status = "running"
    \* no function is run on its own
    /\ packages = <<>>
    /\ idx = 1
    /\ package_dict = <<>>
    /\ soPc = "idle"
    /\ soResult = <<>>
    /\ sortInput = <<>>
    /\ pkgIdx = 1
    /\ dependency_graph = [t \in DepTokens |-> <<>>]
    /\ indegree = [t \in DepTokens |-> 0]
    /\ reported = [t \in DepTokens |-> {}]
    /\ queue = <<>>
    /\ sorted_packages = <<>>
    /\ sortPc = "idle"
    /\ ppScript = "none"
    /\ package_name = <<>>
    /\ ppPc = "idle"
    /\ policy_out = NoPolicy
    /\ debian_version = <<>>
    /\ clone_ok = TRUE
    /\ mirror = NoMirror
    /\ ppPrinted = <<>>
    /\ ppResult = NoResult

\* `if check_git_installed():` (compare_debian_drivers line 269,
\* indi_dependency_checker line 230) and `if check_git_installed() and
\* check_apt_cache_installed():` (merged_drivers line 150). A failed check
\* prints its message; there is no else branch, the script ends normally.
MainCheckTools ==
    /\ pc = "start"
    /\ IF ~git_installed
       THEN /\ printed' = Append(printed, Msg("Error: Git is not installed"))
            /\ pc' = "done"
            /\ exit_status' = 0
       ELSE IF script = "merged_drivers" /\ ~apt_cache_installed
       THEN /\ printed' = Append(printed, Msg("Error: apt-cache is not installed"))
            /\ pc' = "done"
            /\ exit_status' = 0
       ELSE /\ pc' = "clone"
            /\ UNCHANGED <<printed, exit_status>>
    /\ UNCHANGED <<script, repo_entries, git_installed, apt_cache_installed, drivers_list,
                   debian_drivers, common_drivers, loopIdx, driver_results, invoked>>
    /\ UNCHANGED notMain

\* `if clone_or_update_repo(repo_url, repo_path):` and, when it succeeds,
\* drivers_list = list_drivers(drivers_directory_path).
MainClone ==
    /\ pc = "clone"
    /\ invoked' = Append(invoked, Call("clone_or_update_repo", indi_3rdparty))
    /\ \/ \E entries \in Listings :
            /\ repo_entries' = entries
            /\ drivers_list' = list_drivers(script, entries)
            /\ pc' = IF script = "merged_drivers" THEN "search" ELSE "apt"
            /\ UNCHANGED <<printed, exit_status>>
       \/ /\ printed' = Append(printed, Msg("Failed to clone or update the repository"))
          /\ pc' = "done"
          /\ exit_status' = 0
          /\ UNCHANGED <<repo_entries, drivers_list>>
    /\ UNCHANGED <<script, git_installed, apt_cache_installed, debian_drivers,
                   common_drivers, loopIdx, driver_results>>
    /\ UNCHANGED notMain

\* A __main__ that goes on to the search whether apt-cache is there or not.
MainSkipAptCheck ==
    /\ pc = "apt"
    /\ pc' = "search"
    /\ UNCHANGED <<script, repo_entries, git_installed, apt_cache_installed, drivers_list,
                   debian_drivers, common_drivers, loopIdx, driver_results, invoked,
                   printed, exit_status>>
    /\ UNCHANGED notMain

\* `if check_apt_cache_installed():` with its else branch
\* (compare_debian_drivers lines 277, 306-307; indi_dependency_checker lines
\* 235, 260-261).
MainCheckApt ==
    /\ pc = "apt"
    /\ IF apt_cache_installed
       THEN /\ pc' = "search"
            /\ UNCHANGED <<printed, exit_status>>
       ELSE /\ printed' = printed \o <<Msg("Error: apt-cache is not installed"),
                                       Msg("Please install apt-cache to proceed")>>
            /\ pc' = "done"
            /\ exit_status' = 0
    /\ UNCHANGED <<script, repo_entries, git_installed, apt_cache_installed, drivers_list,
                   debian_drivers, common_drivers, loopIdx, driver_results, invoked>>
    /\ UNCHANGED notMain

\* get_debian_drivers, handle_soname_versions and the common drivers
\* (compare_debian_drivers lines 279-285, indi_dependency_checker lines
\* 236-238, merged_drivers lines 155-159). A ValueError of
\* handle_soname_versions is not caught: the script ends with a traceback.
MainSearch ==
    /\ pc = "search"
    /\ invoked' = Append(invoked, Call("apt-cache search", IndiPrefix))
    /\ \E out \in SearchOutputs :
        LET normalized == handle_soname_versions(get_debian_drivers(out)) IN
        IF normalized.raised
        THEN /\ pc' = "crashed"
             /\ exit_status' = 1
             /\ UNCHANGED <<debian_drivers, common_drivers>>
        ELSE /\ debian_drivers' = normalized.value
             /\ \E common \in Orderings(CommonSet(drivers_list, normalized.value)) :
                    common_drivers' =
                        IF script = "merged_drivers" THEN NotIgnored(common) ELSE common
             /\ pc' = IF script = "indi_dependency_checker" THEN "sort" ELSE "loop"
             /\ UNCHANGED exit_status
    /\ UNCHANGED <<script, repo_entries, git_installed, apt_cache_installed, drivers_list, loopIdx,
                   driver_results, printed>>
    /\ UNCHANGED notMain

\* sorted_common_drivers = sort_packages_by_dependencies(common_drivers)
\* (indi_dependency_checker line 240): one `apt-cache depends` per driver;
\* `reported` keeps what the index reported for each.
MainSort ==
    /\ pc = "sort"
    /\ \E answers \in [Range(common_drivers) -> MainDependsOutputs] :
        LET depsOf == [t \in DepTokens |->
                        IF t \in Range(common_drivers)
                        THEN get_dependencies(answers[t]) ELSE <<>>] IN
        /\ common_drivers' = sort_packages_by_dependencies(common_drivers, depsOf)
        /\ reported' = [t \in DepTokens |-> Range(depsOf[t])]
    /\ invoked' = invoked \o [i \in 1..Len(common_drivers) |->
                                Call("apt-cache depends", common_drivers[i])]
    /\ pc' = "loop"
    /\ UNCHANGED <<script, repo_entries, git_installed, apt_cache_installed, drivers_list,
                   debian_drivers, loopIdx, driver_results, printed, exit_status>>
    /\ UNCHANGED <<sortInput, pkgIdx, dependency_graph, indegree, queue,
                   sorted_packages, sortPc>>
    /\ UNCHANGED <<sonameVars, resolveVars>>

\* `if driver in ignored_packages: ... continue` (indi_dependency_checker
\* lines 245-247)
MainIgnore ==
    /\ pc = "loop"
    /\ loopIdx <= Len(common_drivers)
    /\ script = "indi_dependency_checker"
    /\ common_drivers[loopIdx] \in Range(ignored_packages)
    /\ printed' = Append(printed, [msg |-> "Ignoring", arg |-> common_drivers[loopIdx]])
    /\ loopIdx' = loopIdx + 1
    /\ UNCHANGED <<script, repo_entries, git_installed, apt_cache_installed, pc, drivers_list,
                   debian_drivers, common_drivers, driver_results, invoked, exit_status>>
    /\ UNCHANGED notMain

\* One pass of the for loop: `version, git_hash = process_package(driver)`
\* and the store into driver_results (compare_debian_drivers lines 290-298,
\* indi_dependency_checker lines 249-253, merged_drivers lines 162-167).
\* Unpacking the None of a failed clone/update raises TypeError, which nothing
\* catches.
MainProcess ==
    /\ pc = "loop"
    /\ loopIdx <= Len(common_drivers)
    /\ ~(script = "indi_dependency_checker"
            /\ common_drivers[loopIdx] \in Range(ignored_packages))
    /\ \E out \in MainPolicyOutputs, ok \in BOOLEAN, m \in MainMirrors :
        LET driver == common_drivers[loopIdx]
            r == process_package(script, driver, out, ok, m) IN
        /\ invoked' = invoked \o r.invoked
        /\ printed' = printed \o r.printed
        /\ IF r.result = None
           THEN /\ pc' = "crashed"
                /\ exit_status' = 1
                /\ UNCHANGED <<driver_results, loopIdx>>
           ELSE /\ driver_results' =
                    DictSet(driver_results, driver,
                            [version |-> r.result.version, git_hash |-> r.result.git_hash])
                /\ loopIdx' = loopIdx + 1
                /\ UNCHANGED <<pc, exit_status>>
    /\ UNCHANGED <<script, repo_entries, git_installed, apt_cache_installed, drivers_list,
                   debian_drivers, common_drivers>>
    /\ UNCHANGED notMain

\* The table (compare_debian_drivers lines 300-305, indi_dependency_checker
\* lines 255-259, merged_drivers lines 169-172): header, rule, one row per
\* entry of driver_results.
MainPrintTable ==
    /\ pc = "loop"
    /\ loopIdx > Len(common_drivers)
    /\ printed' = printed
            \o <<Msg("Driver | Version | Git Hash"), Msg("-" )>>
            \o [i \in 1..Len(driver_results) |->
                    [msg |-> "row", arg |-> driver_results[i].key,
                     version |-> driver_results[i].value.version,
                     git_hash |-> driver_results[i].value.git_hash]]
    /\ pc' = "done"
    /\ exit_status' = 0
    /\ UNCHANGED <<script, repo_entries, git_installed, apt_cache_installed, drivers_list,
                   debian_drivers, common_drivers, loopIdx, driver_results, invoked>>
    /\ UNCHANGED notMain

Next ==
    \/ MainCheckTools
    \/ MainClone
    \/ MainCheckApt
    \/ MainSearch
    \/ MainSort
    \/ MainIgnore
    \/ MainProcess
    \/ MainPrintTable

----------------------------------------------------------------------------
(* get_common_drivers and list_drivers on their own *)

\* Names that differ by a suffix only, and one unrelated name
CommonNames == {indi_a, indi_gps, indi_gps_1}

\* get_common_drivers on every pair of lists of at most MaxLen names,
\* duplicates included
CommonInit ==
    /\ script = "compare_debian_drivers"
    /\ repo_entries = <<>>
    /\ git_installed = TRUE
    /\ apt_cache_installed = TRUE
    /\ pc = "common"
    /\ drivers_list \in ListsUpTo(CommonNames, MaxLen)
    /\ debian_drivers \in ListsUpTo(CommonNames, MaxLen)
    /\ common_drivers = <<>>
    /\ loopIdx = 1
    /\ driver_results = <<>>
    /\ printed = <<>>
    /\ invoked = <<>>
    /\ exit_status = "running"
    \* no function is run on its own
    /\ packages = <<>>
    /\ idx = 1
    /\ package_dict = <<>>
    /\ soPc = "idle"
    /\ soResult = <<>>
    /\ sortInput = <<>>
    /\ pkgIdx = 1
    /\ dependency_graph = [t \in DepTokens |-> <<>>]
    /\ indegree = [t \in DepTokens |-> 0]
    /\ reported = [t \in DepTokens |-> {}]
    /\ queue = <<>>
    /\ sorted_packages = <<>>
    /\ sortPc = "idle"
    /\ ppScript = "none"
    /\ package_name = <<>>
    /\ ppPc = "idle"
    /\ policy_out = NoPolicy
    /\ debian_version = <<>>
    /\ clone_ok = TRUE
    /\ mirror = NoMirror
    /\ ppPrinted = <<>>
    /\ ppResult = NoResult

\* common_drivers = get_common_drivers(drivers_list, debian_drivers)
GetCommonDrivers ==
    /\ pc = "common"
    /\ \E common \in Orderings(CommonSet(drivers_list, debian_drivers)) :
            common_drivers' = common
    /\ pc' = "common done"
    /\ UNCHANGED <<script, repo_entries, git_installed, apt_cache_installed, drivers_list,
                   debian_drivers, loopIdx, driver_results, printed, invoked,
                   exit_status>>
    /\ UNCHANGED notMain

\* The scripts that define list_drivers
ListScripts == MainScripts \cup {"indi-3rdparty-list-drivers"}

\* Entries a checkout of the third-party repository may hold
RepoEntries ==
    {Dir(indi_a), File(indi_notes), Dir(libapogee), File(libtool_file), Dir(debian_dir)}

\* Most entries of the directory
MaxEntries == 3

\* list_drivers of every script on every directory of at most MaxEntries
\* entries
ListInit ==
    /\ script \in ListScripts
    /\ repo_entries \in DistinctListsUpTo(RepoEntries, MaxEntries)
    /\ git_installed = TRUE
    /\ apt_cache_installed = TRUE
    /\ pc = "list"
    /\ drivers_list = <<>>
    /\ debian_drivers = <<>>
    /\ common_drivers = <<>>
    /\ loopIdx = 1
    /\ driver_results = <<>>
    /\ printed = <<>>
    /\ invoked = <<>>
    /\ exit_status = "running"
    \* no function is run on its own
    /\ packages = <<>>
    /\ idx = 1
    /\ package_dict = <<>>
    /\ soPc = "idle"
    /\ soResult = <<>>
    /\ sortInput = <<>>
    /\ pkgIdx = 1
    /\ dependency_graph = [t \in DepTokens |-> <<>>]
    /\ indegree = [t \in DepTokens |-> 0]
    /\ reported = [t \in DepTokens |-> {}]
    /\ queue = <<>>
    /\ sorted_packages = <<>>
    /\ sortPc = "idle"
    /\ ppScript = "none"
    /\ package_name = <<>>
    /\ ppPc = "idle"
    /\ policy_out = NoPolicy
    /\ debian_version = <<>>
    /\ clone_ok = TRUE
    /\ mirror = NoMirror
    /\ ppPrinted = <<>>
    /\ ppResult = NoResult

\* drivers_list = list_drivers(drivers_directory_path)
ListDrivers ==
    /\ pc = "list"
    /\ drivers_list' = list_drivers(script, repo_entries)
    /\ pc' = "listed"
    /\ UNCHANGED <<script, repo_entries, git_installed, apt_cache_installed,
                   debian_drivers, common_drivers, loopIdx, driver_results, printed,
                   invoked, exit_status>>
    /\ UNCHANGED notMain

----------------------------------------------------------------------------
(* Specifications *)

\* A run of compare_debian_drivers, indi_dependency_checker or merged_drivers
Spec == MainInit /\ [][Next]_vars

\* handle_soname_versions on every list of at most MaxLen names
SpecSoname == SonameInit /\ [][SonameNext]_vars

\* sort_packages_by_dependencies on every duplicate-free list of drivers
SpecSort == SortInit /\ [][SortNext]_vars

\* get_debian_version on every policy output
SpecDebianVersion == PolicyInit /\ [][QueryPolicy]_vars

\* list_drivers on every directory
SpecListDrivers == ListInit /\ [][ListDrivers]_vars

\* get_common_drivers on every pair of lists
SpecCommon == CommonInit /\ [][GetCommonDrivers]_vars

\* extract_version_from_changelog on every changelog
SpecChangelog == ChangelogInit /\ [][ExtractVersion]_vars

\* calculate_version_from_git_hash on every mirror repository
SpecCalculate == CalculateInit /\ [][Calculate]_vars

\* process_package of each script
SpecResolve == ResolveInit /\ [][ProcessPackage]_vars

----------------------------------------------------------------------------
(* Properties of handle_soname_versions *)

SoDone == soPc \in {"returned", "raised"}

\* d is b with decimal digits appended directly (libfoo3 for libfoo)
HasDigitsAppended(b, d) ==
    /\ Len(b) > 0
    /\ Len(d) > Len(b)
    /\ SubSeq(d, 1, Len(b)) = b
    /\ isdigit(SubSeq(d, Len(b) + 1, Len(d)))

\* the part after the last "-" is all digits
Suffixed(name) == isdigit(rpartition(name)[3])

\* v is p-N with N a positive decimal number
IsVariant(v, p) ==
    /\ rpartition(v)[2] = <<"-">>
    /\ rpartition(v)[1] = p
    /\ Suffixed(v)
    /\ int(rpartition(v)[3]) > 0

SuffixValue(name) == int(rpartition(name)[3])

Bases == {BaseName(p) : p \in Range(packages)}

\* positions of the input, and of the output, that belong to base b
Group(b) == {i \in 1..Len(packages) : BaseName(packages[i]) = b}

Kept(b) == {i \in 1..Len(soResult) : BaseName(soResult[i]) = b}

AllSuffixed(b) == \A i \in Group(b) : Suffixed(packages[i])

NoneSuffixed(b) == \A i \in Group(b) : ~Suffixed(packages[i])

\* no base group mixes an unsuffixed name with base-<digits> variants
NoMixedGroup == \A b \in Bases : AllSuffixed(b) \/ NoneSuffixed(b)

\* the first position holding the numerically largest suffix of the group
FirstMax(b) ==
    CHOOSE i \in Group(b) :
        \A j \in Group(b) :
            \/ SuffixValue(packages[j]) < SuffixValue(packages[i])
            \/ SuffixValue(packages[j]) = SuffixValue(packages[i]) /\ j >= i

\* C2: when the list holds a name b and b with digits appended directly
\* (libfoo, libfoo3), in either order, the returned list holds the
\* digit-suffixed name and not b.
C2_DigitsAppendedReconciled ==
    soPc = "returned" =>
        \A b \in Range(packages), d \in Range(packages) :
            HasDigitsAppended(b, d) =>
                d \in Range(soResult) /\ b \notin Range(soResult)

\* C3: when the list holds an unsuffixed name p and a variant p-N with N > 0,
\* in either order, the call returns normally and the single name kept for
\* base p is a p-N variant (the one with the largest N).
C3_UnsuffixedTreatedAsZero ==
    SoDone =>
        \A p \in Range(packages), v \in Range(packages) :
            (~Suffixed(p) /\ IsVariant(v, p)) =>
                /\ soPc = "returned"
                /\ Cardinality(Kept(p)) = 1
                /\ \A i \in Kept(p) :
                    /\ IsVariant(soResult[i], p)
                    /\ \A w \in Range(packages) :
                        IsVariant(w, p) => SuffixValue(w) <= SuffixValue(soResult[i])

\* C8: for every package list the call returns a list no longer than its
\* input in which no two names share a base.
C8_ShorterAndUniqueBases ==
    SoDone =>
        /\ soPc = "returned"
        /\ Len(soResult) <= Len(packages)
        /\ \A i \in 1..Len(soResult), j \in 1..Len(soResult) :
            BaseName(soResult[i]) = BaseName(soResult[j]) => i = j

\* C9: a base group whose members all have the form base-<digits> keeps
\* exactly one member, the first one in the input that holds the numerically
\* largest suffix (ties go to the first seen); a list with no mixed group
\* always returns.
C9_FirstLargestSuffixKept ==
    SoDone =>
        /\ NoMixedGroup => soPc = "returned"
        /\ soPc = "returned" =>
            \A b \in Bases :
                AllSuffixed(b) =>
                    /\ Cardinality(Kept(b)) = 1
                    /\ \A i \in Kept(b) : soResult[i] = packages[FirstMax(b)]

\* A returned call whose input held two different spellings of the same
\* numeric suffix (p-3, p-03) in an all-suffixed group, the first one kept.
C9_Witness ==
    /\ soPc = "returned"
    /\ \E i \in 1..Len(packages), j \in 1..Len(packages) :
        /\ i < j
        /\ packages[i] # packages[j]
        /\ BaseName(packages[i]) = BaseName(packages[j])
        /\ AllSuffixed(BaseName(packages[i]))
        /\ SuffixValue(packages[i]) = SuffixValue(packages[j])
        /\ FirstMax(BaseName(packages[i])) = i
        /\ packages[i] \in Range(soResult)
        /\ packages[j] \notin Range(soResult)

----------------------------------------------------------------------------
(* Properties of sort_packages_by_dependencies *)

\* A depends on B, both members of the input
InSetDep(A, B) ==
    /\ A \in Range(sortInput)
    /\ B \in Range(sortInput)
    /\ B \in reported[A]

\* The packages reached from those of S along at most n in-set dependencies
RECURSIVE DepClosure(_, _)
DepClosure(S, n) ==
    IF n = 0 THEN S
    ELSE DepClosure(S \cup {B \in Range(sortInput) : \E A \in S : InSetDep(A, B)}, n - 1)

\* Everything A depends on, directly or transitively, inside the input
DepsOf(A) ==
    DepClosure({B \in Range(sortInput) : InSetDep(A, B)}, Len(sortInput))

OnCycle(A) == A \in DepsOf(A)

\* A lies on an in-set cycle or depends transitively on a package that does
Trapped(A) == OnCycle(A) \/ \E B \in DepsOf(A) : OnCycle(B)

Occurrences(l, x) == {i \in 1..Len(l) : l[i] = x}

PositionOf(l, x) == CHOOSE i \in 1..Len(l) : l[i] = x

\* every emitted package comes after each of its emitted in-set dependencies
DependenciesFirst ==
    \A A \in Range(sorted_packages), B \in Range(sortInput) :
        InSetDep(A, B) =>
            /\ B \in Range(sorted_packages)
            /\ PositionOf(sorted_packages, B) < PositionOf(sorted_packages, A)

\* C4: on an input whose in-set dependency graph is acyclic the returned list
\* is a permutation of the input with every package after its in-set
\* dependencies; names the index reports that are not in the input change
\* nothing.
C4_AcyclicTopologicalOrder ==
    (sortPc = "returned" /\ \A A \in Range(sortInput) : ~OnCycle(A)) =>
        /\ Len(sorted_packages) = Len(sortInput)
        /\ \A A \in Range(sortInput) : Cardinality(Occurrences(sorted_packages, A)) = 1
        /\ Range(sorted_packages) = Range(sortInput)
        /\ DependenciesFirst

\* A returned sort of three packages, one depending on another that comes
\* later in the input and on a package outside the input.
C4_Witness ==
    /\ sortPc = "returned"
    /\ Len(sortInput) = 3
    /\ \A A \in Range(sortInput) : ~OnCycle(A)
    /\ \E i \in 1..3, j \in 1..3 :
        /\ i < j
        /\ InSetDep(sortInput[i], sortInput[j])
        /\ libc6 \in reported[sortInput[i]]
    /\ Len(sorted_packages) = 3

\* C5: the sort ends (the while loop runs at most once per input package and
\* every state before the return has a next step), and in its result a package
\* is absent exactly when it lies on an in-set cycle (a self-dependency
\* included) or depends transitively on one that does; every other package
\* occurs once, after its in-set dependencies.
C5_CycleMembersDropped ==
    /\ sortPc \in {"build", "kahn"} => ENABLED SortNext
    /\ sortPc = "kahn" => Len(sorted_packages) + Len(queue) <= Len(sortInput)
    /\ sortPc = "returned" =>
        /\ \A A \in Range(sortInput) :
            /\ A \notin Range(sorted_packages) <=> Trapped(A)
            /\ Cardinality(Occurrences(sorted_packages, A)) <= 1
        /\ Range(sorted_packages) \subseteq Range(sortInput)
        /\ DependenciesFirst

\* A returned sort whose input held a 2-cycle, a package depending on it and
\* nothing else: the output is empty.
C5_Witness ==
    /\ sortPc = "returned"
    /\ \E A \in Range(sortInput), B \in Range(sortInput), D \in Range(sortInput) :
        /\ A # B /\ D # A /\ D # B
        /\ InSetDep(A, B) /\ InSetDep(B, A)
        /\ InSetDep(D, A) /\ ~OnCycle(D)
        /\ A \notin Range(sorted_packages)
        /\ B \notin Range(sorted_packages)
        /\ D \notin Range(sorted_packages)

----------------------------------------------------------------------------
(* Properties of get_debian_version *)

\* positions of the lines of the policy output that hold "Candidate:"
CandidateLines ==
    {i \in 1..Len(policy_out.lines) : Contains(policy_out.lines[i], CandidateWord)}

FirstCandidate == CHOOSE i \in CandidateLines : \A j \in CandidateLines : i <= j

\* the version token of the first Candidate line: its second word
CandidateToken == split(policy_out.lines[FirstCandidate])[2]

VersionChars == Digits \cup {"."}

\* v is the longest leading run of digits and dots of token, and not empty
IsLeadingRun(v, token) ==
    /\ Len(v) >= 1
    /\ Len(v) <= Len(token)
    /\ SubSeq(token, 1, Len(v)) = v
    /\ \A i \in 1..Len(v) : v[i] \in VersionChars
    /\ Len(v) < Len(token) => token[Len(v) + 1] \notin VersionChars

\* C7: get_debian_version returns the longest leading run of digits and dots
\* of the version token of the first Candidate line ("1.2.3-1build2" gives
\* "1.2.3"), and "Version not found" when the token starts with neither a
\* digit nor a dot, when no line holds "Candidate:" and when the query fails.
C7_CleanedCandidateVersion ==
    ppPc = "policy done" =>
        IF policy_out.failed \/ CandidateLines = {}
        THEN debian_version = VersionNotFound
        ELSE /\ CandidateToken[1] \notin VersionChars => debian_version = VersionNotFound
             /\ CandidateToken[1] \in VersionChars =>
                    IsLeadingRun(debian_version, CandidateToken)
             /\ CandidateToken = v_1_2_3_1build2 =>
                    debian_version = <<"1", ".", "2", ".", "3">>

\* A policy output with two Candidate lines, the first one for
\* 1.2.3-1build2, answered with 1.2.3.
C7_Witness ==
    /\ ppPc = "policy done"
    /\ ~policy_out.failed
    /\ Cardinality(CandidateLines) >= 2
    /\ CandidateToken = v_1_2_3_1build2
    /\ \E i \in CandidateLines : split(policy_out.lines[i])[2] = v_none
    /\ debian_version = <<"1", ".", "2", ".", "3">>

----------------------------------------------------------------------------
(* Properties of calculate_version_from_git_hash *)

\* the base version: the changelog's version, "1.0" when it gives none
ExpectedBase ==
    IF extract_version_from_changelog(mirror.changelog) = VersionNotFound
    THEN DefaultBase
    ELSE extract_version_from_changelog(mirror.changelog)

HexChars == Digits \cup {"a", "b", "c", "d", "e", "f"}

\* v is base, "+git", the eight digits of the date, ".", and seven characters
\* that start the hash h
HasGitShape(v, base, dt, h) ==
    LET n == Len(base)
        date == SubSeq(v, n + 5, n + 12)
        fragment == SubSeq(v, n + 14, n + 20) IN
    /\ Len(v) = n + 20
    /\ SubSeq(v, 1, n) = base
    /\ SubSeq(v, n + 1, n + 4) = <<"+", "g", "i", "t">>
    /\ isdigit(date)
    /\ DecimalValue(date) = dt.year * 10000 + dt.month * 100 + dt.day
    /\ v[n + 13] = "."
    /\ \A i \in 1..7 : fragment[i] = h[i] /\ fragment[i] \in HexChars

\* C10: on a mirror with at least one commit that GitPython can read,
\* calculate_version_from_git_hash returns (base+"+git"+YYYYMMDD+"."+the first
\* seven characters of the hash, the full hash), date and hash being those of
\* the most recent commit; without a changelog the base is "1.0".
C10_SynthesizedVersion ==
    (ppPc = "calculated" /\ ~mirror.git_error /\ Len(mirror.commits) >= 1) =>
        LET head == mirror.commits[1] IN
        /\ ppResult.kind = "pair"
        /\ ppResult.git_hash = head.hexsha
        /\ HasGitShape(ppResult.version, ExpectedBase, head.committed_datetime,
                       ppResult.git_hash)
        /\ mirror.changelog.kind = "absent" =>
                SubSeq(ppResult.version, 1, 7) = <<"1", ".", "0", "+", "g", "i", "t">>

\* A mirror with two commits and no changelog, answered with a version built
\* from the newer commit: 1.0+git20240307.9fceb02 and the full hash.
C10_Witness ==
    /\ ppPc = "calculated"
    /\ ~mirror.git_error
    /\ Len(mirror.commits) = 2
    /\ mirror.commits[1].hexsha = hash_three
    /\ mirror.changelog.kind = "absent"
    /\ ppResult.git_hash = hash_three
    /\ ppResult.version =
        <<"1", ".", "0", "+", "g", "i", "t", "2", "0", "2", "4", "0", "3", "0", "7",
          ".", "9", "f", "c", "e", "b", "0", "2">>

----------------------------------------------------------------------------
(* Properties of process_package *)

\* the index reports a candidate version for the driver: the policy query
\* succeeds and the token of its first Candidate line starts with a digit or
\* a dot
IndexHasVersion ==
    /\ ~policy_out.failed
    /\ CandidateLines # {}
    /\ CandidateToken[1] \in VersionChars

\* the HEAD commit hash of the mirror, the sentinel when the lookup fails
HeadHashOrSentinel ==
    IF mirror.git_error \/ Len(mirror.commits) = 0
    THEN GitHashNotFound
    ELSE mirror.commits[1].hexsha

\* the version was built from the mirror's commit (base+git<date>.<hash7>)
Synthesized(version) == Contains(version, GitInfix)

\* the call returned a pair after a successful clone/update
ResolvedPair == ppPc = "returned" /\ clone_ok /\ ppResult.kind = "pair"

\* C6 as stated: in every script that defines process_package, when the index
\* reports a candidate version and the clone/update succeeds, the call
\* returns (cleaned candidate version, HEAD hash of the mirror), and a
\* changelog-derived or synthesized version only when the index yields none.
C6_SamePriorityEverywhere ==
    ppPc = "returned" /\ clone_ok /\ IndexHasVersion =>
        /\ ppResult.kind = "pair"
        /\ IsLeadingRun(ppResult.version, CandidateToken)
        /\ ppResult.git_hash = HeadHashOrSentinel
        /\ ~Synthesized(ppResult.version)

\* C6 as amended: compare_debian_drivers and indi_dependency_checker return
\* (cleaned candidate version, HEAD hash of the mirror or "Git hash not
\* found" when the lookup fails) when the index reports a candidate and the
\* clone/update succeeds, and the changelog-derived or synthesized version
\* only when the index yields none; merged_drivers never asks the index and
\* always returns what calculate_version_from_git_hash gives.
C6_SourcePriority ==
    ppPc = "returned" /\ clone_ok =>
        /\ ppResult.kind = "pair"
        /\ (ppScript # "merged_drivers" /\ IndexHasVersion) =>
            /\ IsLeadingRun(ppResult.version, CandidateToken)
            /\ ppResult.git_hash = HeadHashOrSentinel
        /\ (ppScript # "merged_drivers" /\ Synthesized(ppResult.version)) =>
            ~IndexHasVersion
        /\ (ppScript = "merged_drivers" \/ ~IndexHasVersion) =>
            /\ ppResult.git_hash = HeadHashOrSentinel
            /\ IF mirror.git_error \/ Len(mirror.commits) = 0
               THEN ppResult.version = VersionNotFound
               ELSE HasGitShape(ppResult.version, ExpectedBase,
                                mirror.commits[1].committed_datetime, ppResult.git_hash)

\* compare_debian_drivers resolving a driver whose candidate is
\* 1.2.3-1build2 on a mirror with commits: (1.2.3, HEAD hash).
C6_Witness ==
    /\ ppPc = "returned"
    /\ ppScript = "compare_debian_drivers"
    /\ clone_ok
    /\ IndexHasVersion
    /\ ~mirror.git_error
    /\ Len(mirror.commits) = 2
    /\ ppResult = Pair(<<"1", ".", "2", ".", "3">>, hash_three)

----------------------------------------------------------------------------
(* The main loop and a driver whose clone/update fails *)

FailedDrivers ==
    {printed[i].arg : i \in {j \in 1..Len(printed) : printed[j].msg = "Failed to process"}}

TablePrinted == \E i \in 1..Len(printed) : printed[i].msg = "Driver | Version | Git Hash"

HasRow(driver) ==
    \E i \in 1..Len(printed) : printed[i].msg = "row" /\ printed[i].arg = driver

\* The drivers the loop is to process: all common drivers, less the ignored
\* ones in indi_dependency_checker.
ToProcess ==
    {d \in Range(common_drivers) :
        ~(script = "indi_dependency_checker" /\ d \in Range(ignored_packages))}

\* C1: when the clone/update of one driver's mirror fails in the main loop,
\* "Failed to process <driver>" is printed, no record is stored for that
\* driver, the loop goes on (the script does not end with an exception), and
\* when the script has ended the table is printed with a row for every other
\* driver.
C1_FailedDriverSkipped ==
    FailedDrivers # {} =>
        /\ \A d \in FailedDrivers : ~DictHas(driver_results, d)
        /\ pc # "crashed"
        /\ exit_status # 1
        /\ exit_status = 0 =>
            /\ TablePrinted
            /\ \A d \in ToProcess \ FailedDrivers : HasRow(d)

----------------------------------------------------------------------------
(* Properties of extract_version_from_changelog *)

\* "<name> (<V>) <rest>"
FormLine(name, V, rest) == name \o <<" ", "(">> \o V \o <<")", " ">> \o rest

foo == <<"f", "o", "o">>
V_2_5_1 == <<"2", ".", "5", "-", "1">>
V_3_0_2 == <<"3", ".", "0", "-", "2">>
V_tilde == <<"1", ":", "0", ".", "9", "~", "r", "c", "1", "-", "2">>
unstable_medium ==
    <<"u", "n", "s", "t", "a", "b", "l", "e", ";", " ", "u", "r", "g", "e",
      "n", "c", "y", "=", "m", "e", "d", "i", "u", "m">>
stable_low ==
    <<"s", "t", "a", "b", "l", "e", ";", " ", "u", "r", "g", "e", "n", "c",
      "y", "=", "l", "o", "w">>
unstable_low ==
    <<"u", "n", "s", "t", "a", "b", "l", "e", ";", " ", "u", "r", "g", "e",
      "n", "c", "y", "=", "l", "o", "w">>

\* The first lines of the form "<name> (<V>) <rest>", each with its V
FormLines ==
    {[line |-> FormLine(foo, V_2_5_1, unstable_medium), V |-> V_2_5_1],
     [line |-> FormLine(foo, V_3_0_2, stable_low), V |-> V_3_0_2],
     [line |-> FormLine(indi_gps, V_tilde, unstable_low), V |-> V_tilde]}

\* What the first line alone determines: V for a line of the form, the bare
\* second token of a line with two tokens or more, and the sentinel for a
\* line with fewer.
FromFirstLine(line) ==
    CASE line = cl_full -> V_2_5_1
      [] line = cl_other -> V_3_0_2
      [] line = cl_tilde -> V_tilde
      [] line = cl_bare -> V_2_5_1
      [] OTHER -> VersionNotFound

\* C11: for a changelog whose first line is "<name> (<V>) <rest>",
\* extract_version_from_changelog returns V, the token without its
\* parentheses, and whatever the first line is, the lines after it do not
\* change the result.
C11_ParenthesizedTokenOfFirstLine ==
    (ppPc = "extracted" /\ mirror.changelog.kind = "file"
        /\ Len(mirror.changelog.lines) >= 1) =>
        /\ \A f \in FormLines :
                mirror.changelog.lines[1] = f.line => ppResult.version = f.V
        /\ ppResult.version = FromFirstLine(mirror.changelog.lines[1])

\* "foo (2.5-1) unstable; urgency=medium" followed by a line that holds
\* another version gives "2.5-1".
C11_Witness ==
    /\ ppPc = "extracted"
    /\ mirror.changelog.kind = "file"
    /\ mirror.changelog.lines = <<cl_full, cl_other>>
    /\ cl_full = FormLine(foo, V_2_5_1, unstable_medium)
    /\ ppResult.version = V_2_5_1

\* A token enclosed in parentheses: "(" <something> ")"
Parenthesized(token) ==
    Len(token) >= 3 /\ token[1] = "(" /\ token[Len(token)] = ")"

\* The changelog is missing or unreadable, or its first line is empty, has a
\* single token, or has a second token that is not enclosed in parentheses.
NoVersionToken(changelog) ==
    \/ changelog.kind \in {"absent", "unreadable"}
    \/ /\ changelog.kind = "file"
       /\ \/ changelog.lines = <<>>
          \/ LET tokens == split(changelog.lines[1]) IN
                \/ Len(tokens) <= 1
                \/ Len(tokens) >= 2 /\ ~Parenthesized(tokens[2])

\* C12: when the changelog is missing, its first line is empty, or the first
\* line has no parenthesized version token, the version that
\* calculate_version_from_git_hash builds has the base "1.0".
C12_DefaultBaseWhenUnparsable ==
    (ppPc = "calculated" /\ ~mirror.git_error /\ Len(mirror.commits) >= 1
        /\ NoVersionToken(mirror.changelog)) =>
        HasGitShape(ppResult.version, DefaultBase,
                    mirror.commits[1].committed_datetime, mirror.commits[1].hexsha)

----------------------------------------------------------------------------
(* process_package on a mirror whose commit lookup fails *)

\* the mirror has no commit, or GitPython fails on it
LookupFails == mirror.git_error \/ Len(mirror.commits) = 0

\* process_package asked the index and the index gave a version
IndexGaveVersion == QueriesIndex(ppScript) /\ IndexHasVersion

\* C13: when the clone/update succeeds and the commit lookup on the mirror
\* fails, process_package returns (it raises nothing) a pair whose hash is
\* "Git hash not found": (candidate version, "Git hash not found") when the
\* index gave it a version, ("Version not found", "Git hash not found") when
\* not.
C13_LookupFailureGivesSentinels ==
    (ppPc = "returned" /\ clone_ok /\ LookupFails) =>
        /\ ppResult.kind = "pair"
        /\ ppResult.git_hash = GitHashNotFound
        /\ IF IndexGaveVersion
           THEN IsLeadingRun(ppResult.version, CandidateToken)
           ELSE ppResult.version = VersionNotFound

\* compare_debian_drivers on a driver with candidate 1.2.3-1build2 whose
\* mirror was cloned but has no commit: ("1.2.3", "Git hash not found").
C13_Witness ==
    /\ ppPc = "returned"
    /\ ppScript = "compare_debian_drivers"
    /\ clone_ok
    /\ IndexHasVersion
    /\ ~mirror.git_error
    /\ mirror.commits = <<>>
    /\ ppResult = Pair(<<"1", ".", "2", ".", "3">>, GitHashNotFound)

----------------------------------------------------------------------------
(* The runs of the scripts when a tool is missing *)

Ended == pc \in {"done", "crashed"}

GitErrorPrinted ==
    \E i \in 1..Len(printed) : printed[i].msg = "Error: Git is not installed"

\* C14: a run without the git executable prints the error and ends at once
\* with a non-zero exit status, before any clone/update, index query or
\* report; and no run with git present ends with a non-zero status that the
\* script itself sets (status 1 with git present comes only from an uncaught
\* exception).
C14_GitAbsentExitsNonZero ==
    /\ (Ended /\ ~git_installed) =>
            /\ GitErrorPrinted
            /\ invoked = <<>>
            /\ ~TablePrinted
            /\ exit_status # 0
    /\ (Ended /\ git_installed /\ exit_status # 0) => pc = "crashed"

IndexOperations == {"apt-cache search", "apt-cache policy", "apt-cache depends"}

\* the clone/update of a driver's own mirror repository (not of the
\* third-party repository)
MirrorCloned ==
    \E i \in 1..Len(invoked) :
        invoked[i].op = "clone_or_update_repo" /\ invoked[i].arg # indi_3rdparty

\* C15: without the apt-cache executable, compare_debian_drivers,
\* indi_dependency_checker and merged_drivers never invoke a package-index
\* operation, never clone or update a driver's mirror, never print the table,
\* and end with a printed message and without an exception.
C15_AptCacheAbsentDegrades ==
    ~apt_cache_installed =>
        /\ \A i \in 1..Len(invoked) : invoked[i].op \notin IndexOperations
        /\ ~MirrorCloned
        /\ ~TablePrinted
        /\ pc # "crashed"
        /\ Ended => (printed # <<>> /\ exit_status = 0)

\* compare_debian_drivers with git but without apt-cache: the third-party
\* repository is cloned, the two messages are printed, the run is over.
C15_Witness ==
    /\ script = "compare_debian_drivers"
    /\ git_installed
    /\ ~apt_cache_installed
    /\ pc = "done"
    /\ invoked = <<Call("clone_or_update_repo", indi_3rdparty)>>
    /\ printed = <<Msg("Error: apt-cache is not installed"),
                   Msg("Please install apt-cache to proceed")>>

----------------------------------------------------------------------------
(* Properties of get_common_drivers *)

\* C16: get_common_drivers returns exactly the names that occur, character
\* for character, in both lists: each returned name is in both, each name in
\* both is returned, and none is returned twice, duplicates in the inputs
\* notwithstanding.
C16_ExactIntersection ==
    pc = "common done" =>
        /\ \A i \in 1..Len(common_drivers) :
                /\ \E j \in 1..Len(drivers_list) : drivers_list[j] = common_drivers[i]
                /\ \E j \in 1..Len(debian_drivers) : debian_drivers[j] = common_drivers[i]
        /\ \A j \in 1..Len(drivers_list), k \in 1..Len(debian_drivers) :
                drivers_list[j] = debian_drivers[k] =>
                    \E i \in 1..Len(common_drivers) : common_drivers[i] = drivers_list[j]
        /\ \A i \in 1..Len(common_drivers), j \in 1..Len(common_drivers) :
                common_drivers[i] = common_drivers[j] => i = j

\* [indi-gps, indi-a, indi-gps] against [indi-gps-1, indi-gps, indi-gps]
\* gives [indi-gps].
C16_Witness ==
    /\ pc = "common done"
    /\ drivers_list = <<indi_gps, indi_a, indi_gps>>
    /\ debian_drivers = <<indi_gps_1, indi_gps, indi_gps>>
    /\ common_drivers = <<indi_gps>>

----------------------------------------------------------------------------
(* The order in which indi_dependency_checker processes the drivers *)

\* positions in `invoked` of the operations of process_package(driver)
ProcessCalls(driver) ==
    {i \in 1..Len(invoked) :
        /\ invoked[i].op \in {"apt-cache policy", "clone_or_update_repo"}
        /\ invoked[i].arg = driver}

\* positions in `printed` of the rows of the driver
Rows(driver) ==
    {i \in 1..Len(printed) : printed[i].msg = "row" /\ printed[i].arg = driver}

\* C17: in indi_dependency_checker, for two drivers A and B whose processing
\* was begun, if the index reported B as a dependency of A then every
\* operation of B's resolution (policy query, clone/update) comes before every
\* operation of A's and B's row comes before A's row; a driver on the ignore
\* list has no operation of process_package, no record and no row.
C17_DependenciesProcessedFirst ==
    script = "indi_dependency_checker" =>
        /\ \A A \in Drivers, B \in Drivers :
            (A # B /\ B \in reported[A] /\ ProcessCalls(A) # {} /\ ProcessCalls(B) # {}) =>
                /\ \A i \in ProcessCalls(B), j \in ProcessCalls(A) : i < j
                /\ \A i \in Rows(B), j \in Rows(A) : i < j
                /\ (Rows(A) # {} => Rows(B) # {})
        /\ \A d \in Range(ignored_packages) :
                /\ ProcessCalls(d) = {}
                /\ ~DictHas(driver_results, d)
                /\ Rows(d) = {}

\* indi-a depends on indi-b, libapogee is on the ignore list: the table has
\* the row of indi-b, then the row of indi-a, and nothing for libapogee.
C17_Witness ==
    /\ script = "indi_dependency_checker"
    /\ pc = "done"
    /\ reported[indi_a] = {indi_b}
    /\ libapogee \in Range(common_drivers)
    /\ Rows(indi_a) # {} /\ Rows(indi_b) # {}
    /\ \A i \in Rows(indi_b), j \in Rows(indi_a) : i < j
    /\ Rows(libapogee) = {}
    /\ \E i \in 1..Len(printed) :
            printed[i] = [msg |-> "Ignoring", arg |-> libapogee]

----------------------------------------------------------------------------
(* The order among packages that are ready together *)

\* the packages of the input without an in-set dependency, in input order
WithoutInSetDependency ==
    LET Free(pkg) == reported[pkg] \cap Range(sortInput) = {} IN
    SelectSeq(sortInput, Free)

\* C18: the output of sort_packages_by_dependencies begins with the packages
\* that have no in-set dependency, in input order; and each pass of the loop
\* emits the head of the queue and leaves the rest of the queue in place, in
\* front of the packages that became ready in that pass.
C18_FifoInputOrder ==
    /\ [](sortPc = "returned" =>
            /\ Len(WithoutInSetDependency) <= Len(sorted_packages)
            /\ SubSeq(sorted_packages, 1, Len(WithoutInSetDependency))
                    = WithoutInSetDependency)
    /\ [][sorted_packages' # sorted_packages =>
            /\ queue # <<>>
            /\ sorted_packages' = Append(sorted_packages, Head(queue))
            /\ Len(queue') >= Len(queue) - 1
            /\ SubSeq(queue', 1, Len(queue) - 1) = Tail(queue)]_vars

\* [indi-a, indi-b, libapogee] where indi-b depends on indi-a: libapogee was
\* queued from the start and comes before indi-b, which became ready later.
C18_Witness ==
    /\ sortPc = "returned"
    /\ sortInput = <<indi_a, indi_b, libapogee>>
    /\ indi_a \in reported[indi_b]
    /\ sorted_packages = <<indi_a, libapogee, indi_b>>

----------------------------------------------------------------------------
(* Properties of list_drivers *)

AcceptedPrefix(name) == startswith(name, IndiPrefix) \/ startswith(name, LibPrefix)

\* C19: in every script, each name list_drivers returns is the name of a
\* directory of the repository and starts with "indi-" or "lib"; the name of
\* a plain file is never returned.
C19_OnlyDirectoriesListed ==
    pc = "listed" =>
        \A i \in 1..Len(drivers_list) :
            /\ AcceptedPrefix(drivers_list[i])
            /\ \E j \in 1..Len(repo_entries) :
                    repo_entries[j].name = drivers_list[i] /\ repo_entries[j].is_dir
            /\ ~\E j \in 1..Len(repo_entries) :
                    repo_entries[j].name = drivers_list[i] /\ ~repo_entries[j].is_dir

====
